---- MODULE Spec2Model ----
(***************************************************************************)
(* The Confluence source of airweave                                       *)
(* (backend/airweave/platform/sources/confluence.py): the authenticated    *)
(* GET with refresh-and-retry (_get_with_auth), the paginated generators   *)
(* and the depth-first orchestrator generate_entities.                     *)
(*                                                                         *)
(* Strings are modelled as sequences of tokens, so that the concatenation  *)
(* f"{self.base_url}{next_link}" is a concatenation here too.  The query   *)
(* parameter limit=50 of the listing URLs is not part of the tokens.       *)
(* Network-level failures of client.get (httpx.RequestError) are not       *)
(* modelled: a GET always produces an HTTP response.                       *)
(***************************************************************************)
EXTENDS Integers, Naturals, Sequences, FiniteSets, TLC

VARIABLES
    tok,        \* the token the token provider currently holds
    hasTM,      \* self._token_manager is set
    hook,       \* client.get raises HTTPStatusError on a non-2xx response
    fpc,        \* position inside _get_with_auth
    furl,       \* argument url of the running _get_with_auth
    fauth,      \* headers["Authorization"] of the running _get_with_auth
    ffirst,     \* response to the first GET of the running fetch
    fresp,      \* last response received by the running fetch
    fgets,      \* GETs sent by the running fetch
    frefs,      \* refresh_on_unauthorized() calls of the running fetch
    frefOk,     \* what the refresh call returned
    fres,       \* how the fetch ended: returned body or raised error
    reqs,       \* every GET sent so far: url, Authorization token, listing
    pc,         \* position of generate_entities (or of the fetch driver)
    ncalls,     \* fetches started by the fetch driver
    pending,    \* the consumer awaits the next record (__anext__ is running)
    session,    \* the httpx.AsyncClient of generate_entities
    out,        \* records delivered to the consumer, in order
    spItems, spNext,    \* _generate_space_entities: rest of data["results"], next link
    pgItems, pgNext,    \* _generate_page_entities
    cmItems, cmNext,    \* _generate_comment_entities
    blItems, blNext,    \* _generate_blog_post_entities
    curSpace,   \* space_entity of the running iteration
    curItem,    \* page of the running iteration of _generate_page_entities
    curPage,    \* page_entity of the running iteration
    pagesLog,   \* every listing page received: listing, url, results, next link
    handed,     \* ids of the pages handed to process_file_entity_with_content
    dropped,    \* ids of the pages for which it returned nothing
    nextId,     \* next id the upstream assigns to an item
    nextCur,    \* next cursor the upstream assigns to a next link
    nsess,      \* httpx.AsyncClient sessions generate_entities has opened
    sync_iter,  \* AsyncIteratorWrapper.sync_iter: what the wrapped iterator still holds
    consumed,   \* AsyncIteratorWrapper._consumed
    got,        \* what the reads of the wrapper gave, in order
    nreads,     \* calls of next(self.sync_iter)
    wrapped,    \* the wrapped iterator as it was handed to __init__
    other,      \* what a second engine instance holds while it does not run
    AUTH_ENABLED,       \* settings.AUTH_ENABLED
    db,                 \* what the lookups in the database give
    x_api_key,          \* header X-API-Key of the request, or Null
    x_organization_id,  \* header X-Organization-ID of the request, or Null
    auth0_user,         \* the Auth0 user of the request, or Null
    user_context,       \* locals of get_auth_context
    auth_method,
    auth_metadata,
    organization_id,
    apc,        \* where get_auth_context is
    ares        \* what get_auth_context returned or raised

fvars == <<fpc, furl, fauth, ffirst, fresp, fgets, frefs, frefOk, fres>>
gvars == <<spItems, spNext, pgItems, pgNext, cmItems, cmNext, blItems, blNext,
           curSpace, curItem, curPage>>
hvars == <<pagesLog, handed, dropped, nextId, nextCur>>
\* all that one engine instance holds, and what the upstream served to it
pvars == <<tok, hasTM, hook, fvars, reqs, pc, ncalls, pending, session, out, gvars,
           pagesLog, handed, dropped, nsess>>
svars == <<sync_iter, consumed, got, nreads, wrapped>>
tvars == <<other>>
\* a request passing through get_auth_context
ivars == <<AUTH_ENABLED, db, x_api_key, x_organization_id, auth0_user>>
avars == <<ivars, user_context, auth_method, auth_metadata, organization_id, apc, ares>>
xvars == <<nsess, svars, tvars, avars>>
vars == <<tok, hasTM, hook, fvars, reqs, pc, ncalls, pending, session, out, gvars, hvars,
          xvars>>

(***************************************************************************)
(* Bounds of the model.                                                    *)
(***************************************************************************)
MaxIds == 3      \* items the upstream holds, over all listings
MaxLinks == 1    \* next links the upstream hands out, over all listings
MaxItems == 2    \* items on one page
MaxCalls == 2    \* fetches the fetch driver starts
MaxChunks == 3   \* steps the iterator wrapped by AsyncIteratorWrapper holds
MaxReads == 5    \* reads of one AsyncIteratorWrapper
MaxShared == 3   \* ids and next links the upstream hands out to two instances in all

(***************************************************************************)
(* Values.                                                                 *)
(***************************************************************************)
Null == "null"                     \* Python None / absent JSON field
NoLink == <<>>                     \* data["_links"]["next"] absent (or empty)
NoData == [results |-> <<>>, next |-> NoLink, title |-> Null]

Tok(t, k, n) == [t |-> t, k |-> k, n |-> n]
BaseUrl == <<Tok("base", "", 0)>>
SpacesKey == [kind |-> "spaces", parent |-> 0]
NoKey == [kind |-> "none", parent |-> 0]
Key(kind, parent) == [kind |-> kind, parent |-> parent]

SpacesUrl == BaseUrl \o <<Tok("list", "spaces", 0)>>
PagesUrl(space_id) == BaseUrl \o <<Tok("list", "pages", space_id)>>
PageDetailUrl(page_id) == BaseUrl \o <<Tok("detail", "pages", page_id)>>
BlogPostsUrl(space_id) == BaseUrl \o <<Tok("list", "blogposts", space_id)>>
CommentsUrl(page_id) == BaseUrl \o <<Tok("list", "inline-comments", page_id)>>

\* The list endpoints of the generators that generate_entities does not call
\* (its calls of them are commented out, lines 506-520 and 542-555).  Labels
\* and databases are listed on a fixed host, folders on base_url.
YourDomain == <<Tok("your-domain", "", 0)>>
LabelsUrl == YourDomain \o <<Tok("list", "labels", 0)>>
DatabasesUrl(space_key) == YourDomain \o <<Tok("list", "databases", space_key)>>
FoldersUrl(space_id) == BaseUrl \o <<Tok("list", "folder", space_id)>>

\* Variants of the next URL: pagination that stops after the first page, and
\* a next link requested as it came.
NextUrlNone(next_link) == NoLink
NextUrlAsGiven(next_link) == next_link

\* url = f"{self.base_url}{next_link}" if next_link else None
NextUrl(next_link) == IF next_link # NoLink THEN BaseUrl \o next_link ELSE NoLink

\* The two shapes of next link the upstream may hand out.
RelLink(c) == <<Tok("next", "cursor", c)>>
AbsLink(c) == BaseUrl \o <<Tok("next", "cursor", c)>>

(***************************************************************************)
(* HTTP responses.  body: "json" (a JSON object), "text" (non-empty, not   *)
(* JSON) or "empty"; msgScope: the JSON body's "message" contains "scope"  *)
(* in some letter case; cat: the x-failure-category header ("none" when    *)
(* the header is absent, "SCOPE" when its value contains SCOPE).           *)
(***************************************************************************)
Resp(s, b, m, c, d) == [status |-> s, body |-> b, msgScope |-> m, cat |-> c, data |-> d]
NoResp == Resp(0, "empty", FALSE, "none", NoData)
Cats == {"none", "SCOPE", "other"}
Unauthorized ==
    {Resp(401, "json", FALSE, "none", NoData), Resp(401, "json", TRUE, "none", NoData),
     Resp(401, "json", FALSE, "other", NoData), Resp(401, "empty", FALSE, "SCOPE", NoData),
     Resp(401, "text", FALSE, "SCOPE", NoData), Resp(401, "text", FALSE, "none", NoData)}
OtherStatus == {403, 404, 429, 500}
Failures == {Resp(s, "json", FALSE, "none", NoData) : s \in OtherStatus}
Garbled == {Resp(200, "text", FALSE, "none", NoData)}
Ok(d) == Resp(200, "json", FALSE, "none", d)
IsSuccess(r) == r.status = 200

\* What the claims call a scope indicator of a 401 response.
HasScopeIndicator(r) == (r.body = "json" /\ r.msgScope) \/ r.cat = "SCOPE"

NoRes == [kind |-> "none", status |-> 0, req |-> 0, data |-> NoData]
Returned(d) == [kind |-> "ok", status |-> 200, req |-> 0, data |-> d]
Raised(kind, r, n) == [kind |-> kind, status |-> r.status, req |-> n, data |-> NoData]

(***************************************************************************)
(* The collaborators of the source that live in BaseSource and in the      *)
(* token manager.                                                          *)
(***************************************************************************)
\* await self.get_access_token(): the provider's current token.
GetAccessToken == tok
\* What a successful refresh_on_unauthorized() leaves as the current token.
RefreshedToken(t) == t + 1

(***************************************************************************)
(* What the upstream may answer.  The ids and cursors it hands out are     *)
(* fresh; it holds at most MaxIds items and hands out at most MaxLinks     *)
(* next links, so that every chain of next links ends.                     *)
(***************************************************************************)
FetchPcs == {"sp_fetch", "pg_fetch", "pd_fetch", "cm_fetch", "bl_fetch", "call"}
ListPcs == {"sp_fetch", "pg_fetch", "cm_fetch", "bl_fetch"}

Min(a, b) == IF a < b THEN a ELSE b
NoOther == <<>>
\* What the upstream still hands out: ids, while one instance runs; ids and
\* next links together, while two instances run.
Left ==
    IF other = NoOther THEN (MaxIds + 1) - nextId ELSE (MaxShared + 2) - (nextId + nextCur)
\* The upstream's data: the items with an even id have no name, the pages
\* with an odd id have no title.
NameOf(id) == IF id % 2 = 0 THEN Null ELSE "Eng"
TitleOf(id) == IF id % 2 = 0 THEN "Design" ELSE Null
ItemCounts == 0..Min(MaxItems, Left)
\* The next links of the blog post listings are absolute URLs, the others
\* are relative to the base URL.
Links == {NoLink} \cup (IF nextCur <= MaxLinks
                        THEN {IF pc = "bl_fetch" THEN AbsLink(nextCur) ELSE RelLink(nextCur)}
                        ELSE {})
Page(n, link) ==
    [results |-> [i \in 1..n |-> [id |-> nextId + (i - 1), name |-> NameOf(nextId + (i - 1))]],
     next |-> link, title |-> Null]
Pages ==
    {p \in {Page(n, link) : n \in ItemCounts, link \in Links} :
        other = NoOther \/ p.next = NoLink \/ Len(p.results) < Left}
Details == {[results |-> <<>>, next |-> NoLink, title |-> TitleOf(curItem.id)]}
Payloads == IF pc \in ListPcs THEN Pages ELSE IF pc = "pd_fetch" THEN Details ELSE {NoData}
\* Inside the traversal: one error response for each way a fetch fails.
Faults ==
    {Resp(401, "json", FALSE, "none", NoData), Resp(401, "json", TRUE, "none", NoData),
     Resp(401, "text", FALSE, "SCOPE", NoData)}
\* While two instances run: the upstream rejects the token an instance was
\* created with, and no refreshed token.
TwoFaults == IF tok = 1 THEN {Resp(401, "json", FALSE, "none", NoData)} ELSE {}
Errors ==
    IF pc = "call" THEN Unauthorized \cup Failures \cup Garbled
    ELSE IF other = NoOther THEN Faults ELSE TwoFaults
Responses == Errors \cup {Ok(d) : d \in Payloads}

\* The listing (or detail) a request belongs to.
ReqKey ==
    CASE pc = "sp_fetch" -> SpacesKey
      [] pc = "pg_fetch" -> Key("pages", curSpace.id)
      [] pc = "pd_fetch" -> Key("detail", curItem.id)
      [] pc = "cm_fetch" -> Key("inline-comments", curPage.id)
      [] pc = "bl_fetch" -> Key("blogposts", curSpace.id)
      [] OTHER -> NoKey
Request == [url |-> furl, auth |-> fauth, key |-> ReqKey]
Served(r) ==
    /\ nextId' = nextId + Len(r.data.results)
    /\ nextCur' = IF r.data.next # NoLink THEN nextCur + 1 ELSE nextCur

(***************************************************************************)
(* _get_with_auth                                                          *)
(***************************************************************************)
\* (variant: the refresh is tried on every error status)
OnStatusErrorAny(r, tm) == IF tm THEN "refresh" ELSE "raise"

\* line 183: e.response.status_code == 401 and self._token_manager
OnStatusError(r, tm) == IF r.status = 401 /\ tm THEN "refresh" ELSE "raise"

\* (variant: the request is retried whatever the refresh returned)
AfterRefreshAlways(refreshed) == "retry"

\* lines 187-194: if refreshed: retry, else: raise
AfterRefresh(refreshed) == IF refreshed THEN "retry" ELSE "raise"

\* line 205: response.json() if response.text else {} raises on a body that is not JSON
ErrorBodyFails(r) == r.body = "text"

\* lines 208-212: "scope" in error_message.lower()
\*                or "x-failure-category" in response.headers and "SCOPE" in its value
IsScopeError(r) == r.msgScope \/ (r.cat # "none" /\ r.cat = "SCOPE")

\* lines 198-222: what _get_with_auth does with a response it holds
CheckOutcome(r, n) ==
    IF ~IsSuccess(r)
    THEN IF r.status = 401
         THEN IF ErrorBodyFails(r) THEN Raised("decode", r, n)
              ELSE IF IsScopeError(r) THEN Raised("scope", r, n)
              ELSE Raised("http", r, n)
         ELSE Raised("http", r, n)
    ELSE IF r.body # "json" THEN Raised("decode", r, n)
    ELSE Returned(r.data)

\* lines 166-177: the token is read and the headers are built
BeginFetch ==
    /\ pending /\ pc \in FetchPcs /\ fpc = "idle"
    /\ fauth' = GetAccessToken
    /\ fpc' = "get"
    /\ ffirst' = NoResp /\ fresp' = NoResp /\ fgets' = 0 /\ frefs' = 0
    /\ frefOk' = FALSE /\ fres' = NoRes
    /\ UNCHANGED <<tok, hasTM, hook, furl, reqs, pc, ncalls, pending, session, out, gvars, hvars,
                   xvars>>

\* line 180: the first client.get; it returns the response, or raises
\* HTTPStatusError when the client is one that raises on an error status
FirstGet ==
    /\ pending /\ fpc = "get"
    /\ \E r \in Responses :
        /\ reqs' = Append(reqs, Request)
        /\ fgets' = fgets + 1
        /\ ffirst' = r /\ fresp' = r
        /\ fpc' = IF hook /\ ~IsSuccess(r) THEN "except" ELSE "check"
        /\ Served(r)
    /\ UNCHANGED <<tok, hasTM, hook, furl, fauth, frefs, frefOk, fres, pc, ncalls, pending,
                   session, out, gvars, pagesLog, handed, dropped, xvars>>

\* Variant: the except clause without lines 189-190, the request retried
\* with the headers of the first.
HandleStatusErrorSameHeaders ==
    /\ pending /\ fpc = "except"
    /\ \E refreshed \in BOOLEAN :
        IF OnStatusError(fresp, hasTM) = "refresh"
        THEN /\ frefs' = frefs + 1
             /\ frefOk' = refreshed
             /\ tok' = IF refreshed THEN RefreshedToken(tok) ELSE tok
             /\ fauth' = fauth
             /\ IF AfterRefresh(refreshed) = "retry"
                THEN fpc' = "retry" /\ fres' = fres
                ELSE fpc' = "done" /\ fres' = Raised("http", fresp, 1)
        ELSE /\ fpc' = "done"
             /\ fres' = Raised("http", fresp, 1)
             /\ UNCHANGED <<tok, fauth, frefs, frefOk>>
    /\ UNCHANGED <<hasTM, hook, furl, ffirst, fresp, fgets, reqs, pc, ncalls, pending,
                   session, out, gvars, hvars, xvars>>

\* lines 181-196 up to the retried client.get: the except clause
HandleStatusError ==
    /\ pending /\ fpc = "except"
    /\ \E refreshed \in BOOLEAN :
        IF OnStatusError(fresp, hasTM) = "refresh"
        THEN /\ frefs' = frefs + 1
             /\ frefOk' = refreshed
             /\ tok' = IF refreshed THEN RefreshedToken(tok) ELSE tok
             /\ IF AfterRefresh(refreshed) = "retry"
                THEN /\ fauth' = GetAccessToken'
                     /\ fpc' = "retry"
                     /\ fres' = fres
                ELSE /\ fauth' = fauth
                     /\ fpc' = "done"
                     /\ fres' = Raised("http", fresp, 1)
        ELSE /\ fpc' = "done"
             /\ fres' = Raised("http", fresp, 1)
             /\ UNCHANGED <<tok, fauth, frefs, frefOk>>
    /\ UNCHANGED <<hasTM, hook, furl, ffirst, fresp, fgets, reqs, pc, ncalls, pending,
                   session, out, gvars, hvars, xvars>>

\* (variant: an error status of the retried request is handled like the first)
RetryGetLoop ==
    /\ pending /\ fpc = "retry"
    /\ \E r \in Responses :
        /\ reqs' = Append(reqs, Request)
        /\ fgets' = fgets + 1
        /\ fresp' = r
        /\ fpc' = IF hook /\ ~IsSuccess(r) THEN "except" ELSE "check"
        /\ Served(r)
    /\ UNCHANGED <<tok, hasTM, hook, furl, fauth, ffirst, frefs, frefOk, fres, pc, ncalls,
                   pending, session, out, gvars, pagesLog, handed, dropped, xvars>>

\* line 192: the retried client.get, inside the except clause: an
\* HTTPStatusError it raises is not caught
RetryGet ==
    /\ pending /\ fpc = "retry"
    /\ \E r \in Responses :
        /\ reqs' = Append(reqs, Request)
        /\ fgets' = fgets + 1
        /\ fresp' = r
        /\ IF hook /\ ~IsSuccess(r)
           THEN fpc' = "done" /\ fres' = Raised("http", r, 2)
           ELSE fpc' = "check" /\ fres' = fres
        /\ Served(r)
    /\ UNCHANGED <<tok, hasTM, hook, furl, fauth, ffirst, frefs, frefOk, pc, ncalls, pending,
                   session, out, gvars, pagesLog, handed, dropped, xvars>>

\* lines 198-222
CheckResponse ==
    /\ pending /\ fpc = "check"
    /\ fres' = CheckOutcome(fresp, fgets)
    /\ fpc' = "done"
    /\ UNCHANGED <<tok, hasTM, hook, furl, fauth, ffirst, fresp, fgets, frefs, frefOk, reqs,
                   pc, ncalls, pending, session, out, gvars, hvars, xvars>>

(***************************************************************************)
(* A driver that calls _get_with_auth directly, with a client of either    *)
(* kind: the httpx.AsyncClient that generate_entities builds, whose get    *)
(* returns the response whatever its status, or a client whose get raises  *)
(* HTTPStatusError on an error status (the case the except clause of       *)
(* lines 181-196 is written for).                                          *)
(***************************************************************************)
NoItem == [id |-> 0, name |-> Null]
NoRecord == [kind |-> "none", id |-> 0, name |-> Null, lineage |-> <<>>]

Call ==
    /\ pc = "driver" /\ ncalls < MaxCalls
    /\ furl' \in {SpacesUrl, PageDetailUrl(1)}
    /\ pc' = "call"
    /\ ncalls' = ncalls + 1
    /\ UNCHANGED <<tok, hasTM, hook, fpc, fauth, ffirst, fresp, fgets, frefs, frefOk, fres,
                   reqs, pending, session, out, gvars, hvars, xvars>>

Return ==
    /\ pc = "call" /\ fpc = "done"
    /\ pc' = "driver"
    /\ fpc' = "idle"
    /\ UNCHANGED <<tok, hasTM, hook, furl, fauth, ffirst, fresp, fgets, frefs, frefOk, fres,
                   reqs, ncalls, pending, session, out, gvars, hvars, xvars>>

\* No content stream is being read.
NoStream ==
    /\ sync_iter = <<>> /\ wrapped = <<>> /\ consumed = FALSE /\ got = <<>> /\ nreads = 0
\* One engine instance runs alone.
Alone == other = NoOther
\* No request is in get_auth_context.
NoUser == [primary_organization_id |-> Null, user_organizations |-> {}, found |-> FALSE]
NoApiKey == [organization_id |-> Null, found |-> FALSE, error |-> "none"]
NoMetadata == [of |-> "none", organization_id |-> Null]
NoOutcome == [kind |-> "none", status |-> 0, organization_id |-> Null, auth_method |-> ""]
NoRequest ==
    /\ AUTH_ENABLED = TRUE
    /\ db = [user |-> NoUser, api_key |-> NoApiKey, api_key_again |-> NoApiKey]
    /\ x_api_key = Null /\ x_organization_id = Null /\ auth0_user = Null
    /\ user_context = NoUser /\ auth_method = "" /\ auth_metadata = NoMetadata
    /\ organization_id = Null /\ apc = "off" /\ ares = NoOutcome

InitCommon ==
    /\ tok = 1
    /\ nsess = 0
    /\ fpc = "idle" /\ furl = NoLink /\ fauth = 0
    /\ ffirst = NoResp /\ fresp = NoResp /\ fgets = 0 /\ frefs = 0
    /\ frefOk = FALSE /\ fres = NoRes
    /\ reqs = <<>> /\ ncalls = 0 /\ out = <<>>
    /\ spItems = <<>> /\ spNext = NoLink /\ pgItems = <<>> /\ pgNext = NoLink
    /\ cmItems = <<>> /\ cmNext = NoLink /\ blItems = <<>> /\ blNext = NoLink
    /\ curSpace = NoRecord /\ curItem = NoItem /\ curPage = NoRecord
    /\ pagesLog = <<>> /\ handed = {} /\ dropped = {}
    /\ nextId = 1 /\ nextCur = 1

InitFetch ==
    /\ InitCommon /\ NoStream /\ Alone /\ NoRequest
    /\ hasTM \in BOOLEAN
    /\ hook \in BOOLEAN
    /\ pc = "driver" /\ pending = TRUE /\ session = "none"

NextFetch ==
    \/ Call \/ BeginFetch \/ FirstGet \/ HandleStatusError \/ RetryGet \/ CheckResponse
    \/ Return

SpecFetch == InitFetch /\ [][NextFetch]_vars

(***************************************************************************)
(* Entities and breadcrumbs.                                               *)
(***************************************************************************)
\* Variant: the name as the upstream gave it.
AsGiven(x) == x

\* x or ""
OrEmpty(x) == IF x = Null \/ x = "" THEN "" ELSE x
Breadcrumb(id, name, type) == [id |-> id, name |-> name, kind |-> type]

\* lines 248-259
SpaceEntity(space) == [kind |-> "space", id |-> space.id, name |-> space.name, lineage |-> <<>>]
\* lines 472-476
SpaceBreadcrumb(space_entity) == Breadcrumb(space_entity.id, OrEmpty(space_entity.name), "space")
\* lines 276, 293-308: id of the listed page, title of the page details
PageEntity(page, page_details, space_breadcrumb) ==
    [kind |-> "page", id |-> page.id, name |-> page_details.title,
     lineage |-> <<space_breadcrumb>>]
\* Variant: the breadcrumbs of a page without the space above it.
PageBreadcrumbsShort(space_breadcrumb, page_entity) ==
    <<Breadcrumb(page_entity.id, OrEmpty(page_entity.name), "page")>>
\* lines 490-497
PageBreadcrumbs(space_breadcrumb, page_entity) ==
    <<space_breadcrumb, Breadcrumb(page_entity.id, OrEmpty(page_entity.name), "page")>>
\* lines 384-394
CommentEntity(comment, parent_breadcrumbs) ==
    [kind |-> "comment", id |-> comment.id, name |-> Null, lineage |-> parent_breadcrumbs]
\* lines 351-362
BlogPostEntity(blog, space_breadcrumb) ==
    [kind |-> "blogpost", id |-> blog.id, name |-> blog.name, lineage |-> <<space_breadcrumb>>]

\* BaseSource.process_file_entity_with_content: the processed entity, or nothing
ProcessResults(file_entity) == {file_entity, NoRecord}

LogPage == [key |-> ReqKey, url |-> furl, results |-> fres.data.results, next |-> fres.data.next]
FetchOk == fpc = "done" /\ fres.kind = "ok"

(***************************************************************************)
(* The consumer of generate_entities.                                      *)
(***************************************************************************)
Pull ==
    /\ ~pending /\ pc \notin {"done", "failed", "closed", "abandoned", "driver", "call"}
    /\ pending' = TRUE
    /\ UNCHANGED <<tok, hasTM, hook, fvars, reqs, pc, ncalls, session, out, gvars, hvars,
                   xvars>>

(***************************************************************************)
(* generate_entities and the generators it drives.  Every step below runs  *)
(* inside a pending __anext__ of the consumer.                             *)
(***************************************************************************)
\* line 467 and lines 243-244: the client is opened, the space listing starts
Open ==
    /\ pending /\ pc = "start"
    /\ session' = "open"
    /\ nsess' = nsess + 1
    /\ furl' = SpacesUrl
    /\ pc' = "sp_fetch"
    /\ UNCHANGED <<tok, hasTM, hook, fpc, fauth, ffirst, fresp, fgets, frefs, frefOk, fres,
                   reqs, ncalls, pending, out, gvars, hvars, svars, tvars, avars>>

\* line 246: data of one page of spaces
SpacePage ==
    /\ pending /\ pc = "sp_fetch" /\ FetchOk
    /\ spItems' = fres.data.results
    /\ spNext' = fres.data.next
    /\ pagesLog' = Append(pagesLog, LogPage)
    /\ pc' = "sp_loop"
    /\ fpc' = "idle"
    /\ UNCHANGED <<tok, hasTM, hook, furl, fauth, ffirst, fresp, fgets, frefs, frefOk, fres,
                   reqs, ncalls, pending, session, out, pgItems, pgNext, cmItems, cmNext,
                   blItems, blNext, curSpace, curItem, curPage, handed, dropped, nextId,
                   nextCur, xvars>>

\* Variant: the space is handed over and the traversal runs on without
\* waiting for the consumer's next request.
SpaceYieldEager ==
    /\ pending /\ pc = "sp_loop" /\ spItems # <<>>
    /\ curSpace' = SpaceEntity(Head(spItems))
    /\ out' = Append(out, curSpace')
    /\ spItems' = Tail(spItems)
    /\ pc' = "sp_body"
    /\ UNCHANGED <<tok, hasTM, hook, fvars, reqs, ncalls, pending, session, spNext, pgItems,
                   pgNext, cmItems, cmNext, blItems, blNext, curItem, curPage, hvars, xvars>>

\* lines 247-259 and 469-470: the next space is yielded to the consumer
SpaceYield ==
    /\ pending /\ pc = "sp_loop" /\ spItems # <<>>
    /\ curSpace' = SpaceEntity(Head(spItems))
    /\ out' = Append(out, curSpace')
    /\ spItems' = Tail(spItems)
    /\ pending' = FALSE
    /\ pc' = "sp_body"
    /\ UNCHANGED <<tok, hasTM, hook, fvars, reqs, ncalls, session, spNext, pgItems, pgNext,
                   cmItems, cmNext, blItems, blNext, curItem, curPage, hvars, xvars>>

\* lines 261-263: the next page of spaces, or the end of generate_entities
SpaceNext ==
    /\ pending /\ pc = "sp_loop" /\ spItems = <<>>
    /\ IF NextUrl(spNext) # NoLink
       THEN /\ furl' = NextUrl(spNext)
            /\ pc' = "sp_fetch"
            /\ UNCHANGED <<pending, session>>
       ELSE /\ pc' = "done"
            /\ session' = "closed"
            /\ pending' = FALSE
            /\ furl' = furl
    /\ UNCHANGED <<tok, hasTM, hook, fpc, fauth, ffirst, fresp, fgets, frefs, frefOk, fres,
                   reqs, ncalls, out, gvars, hvars, xvars>>

\* lines 472-483 and 269-270: the page listing of the space starts
PagesStart ==
    /\ pending /\ pc = "sp_body"
    /\ furl' = PagesUrl(curSpace.id)
    /\ pc' = "pg_fetch"
    /\ UNCHANGED <<tok, hasTM, hook, fpc, fauth, ffirst, fresp, fgets, frefs, frefOk, fres,
                   reqs, ncalls, pending, session, out, gvars, hvars, xvars>>

\* line 273: data of one page of the page listing
PagePage ==
    /\ pending /\ pc = "pg_fetch" /\ FetchOk
    /\ pgItems' = fres.data.results
    /\ pgNext' = fres.data.next
    /\ pagesLog' = Append(pagesLog, LogPage)
    /\ pc' = "pg_loop"
    /\ fpc' = "idle"
    /\ UNCHANGED <<tok, hasTM, hook, furl, fauth, ffirst, fresp, fgets, frefs, frefOk, fres,
                   reqs, ncalls, pending, session, out, spItems, spNext, cmItems, cmNext,
                   blItems, blNext, curSpace, curItem, curPage, handed, dropped, nextId,
                   nextCur, xvars>>

\* Variant: the listed page stays at the head of the results.
PageDetailAgain ==
    /\ pending /\ pc = "pg_loop" /\ pgItems # <<>>
    /\ curItem' = Head(pgItems)
    /\ furl' = PageDetailUrl(Head(pgItems).id)
    /\ pc' = "pd_fetch"
    /\ UNCHANGED <<tok, hasTM, hook, fpc, fauth, ffirst, fresp, fgets, frefs, frefOk, fres,
                   reqs, ncalls, pending, session, out, spItems, spNext, pgItems, pgNext,
                   cmItems, cmNext, blItems, blNext, curSpace, curPage, hvars, xvars>>

\* lines 275-281: the detail fetch of the next listed page starts
PageDetail ==
    /\ pending /\ pc = "pg_loop" /\ pgItems # <<>>
    /\ curItem' = Head(pgItems)
    /\ pgItems' = Tail(pgItems)
    /\ furl' = PageDetailUrl(Head(pgItems).id)
    /\ pc' = "pd_fetch"
    /\ UNCHANGED <<tok, hasTM, hook, fpc, fauth, ffirst, fresp, fgets, frefs, frefOk, fres,
                   reqs, ncalls, pending, session, out, spItems, spNext, pgNext, cmItems,
                   cmNext, blItems, blNext, curSpace, curPage, hvars, xvars>>

\* Variant: the comments of a page are traversed whatever
\* process_file_entity_with_content returned.
PageProcessThenComments ==
    /\ pending /\ pc = "pd_fetch" /\ FetchOk
    /\ LET file_entity == PageEntity(curItem, fres.data, SpaceBreadcrumb(curSpace))
       IN \E processed_entity \in ProcessResults(file_entity) :
            /\ handed' = handed \cup {curItem.id}
            /\ curPage' = file_entity
            /\ pc' = "pg_body"
            /\ IF processed_entity # NoRecord
               THEN /\ out' = Append(out, processed_entity)
                    /\ pending' = FALSE
                    /\ dropped' = dropped
               ELSE /\ dropped' = dropped \cup {curItem.id}
                    /\ UNCHANGED <<out, pending>>
    /\ fpc' = "idle"
    /\ UNCHANGED <<tok, hasTM, hook, furl, fauth, ffirst, fresp, fgets, frefs, frefOk, fres,
                   reqs, ncalls, session, spItems, spNext, pgItems, pgNext, cmItems, cmNext,
                   blItems, blNext, curSpace, curItem, pagesLog, nextId, nextCur, xvars>>

\* Variant: the page is yielded whatever process_file_entity_with_content
\* returned.
PageProcessYieldAll ==
    /\ pending /\ pc = "pd_fetch" /\ FetchOk
    /\ LET file_entity == PageEntity(curItem, fres.data, SpaceBreadcrumb(curSpace))
       IN \E processed_entity \in ProcessResults(file_entity) :
            /\ handed' = handed \cup {curItem.id}
            /\ dropped' = IF processed_entity # NoRecord
                          THEN dropped ELSE dropped \cup {curItem.id}
            /\ curPage' = file_entity
            /\ out' = Append(out, file_entity)
    /\ pending' = FALSE
    /\ pc' = "pg_body"
    /\ fpc' = "idle"
    /\ UNCHANGED <<tok, hasTM, hook, furl, fauth, ffirst, fresp, fgets, frefs, frefOk, fres,
                   reqs, ncalls, session, spItems, spNext, pgItems, pgNext, cmItems, cmNext,
                   blItems, blNext, curSpace, curItem, pagesLog, nextId, nextCur, xvars>>

\* lines 283-336 and 484-488: the entity and its HTML stream are built and
\* handed to process_file_entity_with_content; the result is yielded, or
\* nothing is and the loop goes on
PageProcess ==
    /\ pending /\ pc = "pd_fetch" /\ FetchOk
    /\ LET file_entity == PageEntity(curItem, fres.data, SpaceBreadcrumb(curSpace))
       IN \E processed_entity \in ProcessResults(file_entity) :
            /\ handed' = handed \cup {curItem.id}
            /\ IF processed_entity # NoRecord
               THEN /\ curPage' = processed_entity
                    /\ out' = Append(out, processed_entity)
                    /\ pending' = FALSE
                    /\ pc' = "pg_body"
                    /\ dropped' = dropped
               ELSE /\ dropped' = dropped \cup {curItem.id}
                    /\ pc' = "pg_loop"
                    /\ UNCHANGED <<curPage, out, pending>>
    /\ fpc' = "idle"
    /\ UNCHANGED <<tok, hasTM, hook, furl, fauth, ffirst, fresp, fgets, frefs, frefOk, fres,
                   reqs, ncalls, session, spItems, spNext, pgItems, pgNext, cmItems, cmNext,
                   blItems, blNext, curSpace, curItem, pagesLog, nextId, nextCur, xvars>>

\* Variant: step 5 of the space loop enabled (lines 514-520): after the pages
\* of a space its folders are listed.
PageNextFolders ==
    /\ pending /\ pc = "pg_loop" /\ pgItems = <<>>
    /\ IF NextUrl(pgNext) # NoLink
       THEN furl' = NextUrl(pgNext) /\ pc' = "pg_fetch"
       ELSE furl' = FoldersUrl(curSpace.id) /\ pc' = "bl_fetch"
    /\ UNCHANGED <<tok, hasTM, hook, fpc, fauth, ffirst, fresp, fgets, frefs, frefOk, fres,
                   reqs, ncalls, pending, session, out, gvars, hvars, xvars>>

\* lines 338-340 and 506-525: the next page of the page listing, or (the
\* database and folder listings being commented out) the blog post listing
\* of the space starts (lines 346-347)
PageNext ==
    /\ pending /\ pc = "pg_loop" /\ pgItems = <<>>
    /\ IF NextUrl(pgNext) # NoLink
       THEN furl' = NextUrl(pgNext) /\ pc' = "pg_fetch"
       ELSE furl' = BlogPostsUrl(curSpace.id) /\ pc' = "bl_fetch"
    /\ UNCHANGED <<tok, hasTM, hook, fpc, fauth, ffirst, fresp, fgets, frefs, frefOk, fres,
                   reqs, ncalls, pending, session, out, gvars, hvars, xvars>>

\* Variant: the loop over the pages goes on without the comments of the
\* page that was yielded.
CommentsStartSkip ==
    /\ pending /\ pc = "pg_body"
    /\ furl' = furl
    /\ pc' = "pg_loop"
    /\ UNCHANGED <<tok, hasTM, hook, fpc, fauth, ffirst, fresp, fgets, frefs, frefOk, fres,
                   reqs, ncalls, pending, session, out, gvars, hvars, xvars>>

\* lines 490-503 and 379-380: the comment listing of the page starts
CommentsStart ==
    /\ pending /\ pc = "pg_body"
    /\ furl' = CommentsUrl(curPage.id)
    /\ pc' = "cm_fetch"
    /\ UNCHANGED <<tok, hasTM, hook, fpc, fauth, ffirst, fresp, fgets, frefs, frefOk, fres,
                   reqs, ncalls, pending, session, out, gvars, hvars, xvars>>

\* line 382
CommentPage ==
    /\ pending /\ pc = "cm_fetch" /\ FetchOk
    /\ cmItems' = fres.data.results
    /\ cmNext' = fres.data.next
    /\ pagesLog' = Append(pagesLog, LogPage)
    /\ pc' = "cm_loop"
    /\ fpc' = "idle"
    /\ UNCHANGED <<tok, hasTM, hook, furl, fauth, ffirst, fresp, fgets, frefs, frefOk, fres,
                   reqs, ncalls, pending, session, out, spItems, spNext, pgItems, pgNext,
                   blItems, blNext, curSpace, curItem, curPage, handed, dropped, nextId,
                   nextCur, xvars>>

\* lines 383-394 and 504
CommentYield ==
    /\ pending /\ pc = "cm_loop" /\ cmItems # <<>>
    /\ out' = Append(out, CommentEntity(Head(cmItems),
                                        PageBreadcrumbs(SpaceBreadcrumb(curSpace), curPage)))
    /\ cmItems' = Tail(cmItems)
    /\ pending' = FALSE
    /\ UNCHANGED <<tok, hasTM, hook, fvars, reqs, pc, ncalls, session, spItems, spNext,
                   pgItems, pgNext, cmNext, blItems, blNext, curSpace, curItem, curPage,
                   hvars, xvars>>

\* lines 395-396: the next page of comments, or back to the loop over pages
CommentNext ==
    /\ pending /\ pc = "cm_loop" /\ cmItems = <<>>
    /\ IF NextUrl(cmNext) # NoLink
       THEN furl' = NextUrl(cmNext) /\ pc' = "cm_fetch"
       ELSE furl' = furl /\ pc' = "pg_loop"
    /\ UNCHANGED <<tok, hasTM, hook, fpc, fauth, ffirst, fresp, fgets, frefs, frefOk, fres,
                   reqs, ncalls, pending, session, out, gvars, hvars, xvars>>

\* line 349
BlogPage ==
    /\ pending /\ pc = "bl_fetch" /\ FetchOk
    /\ blItems' = fres.data.results
    /\ blNext' = fres.data.next
    /\ pagesLog' = Append(pagesLog, LogPage)
    /\ pc' = "bl_loop"
    /\ fpc' = "idle"
    /\ UNCHANGED <<tok, hasTM, hook, furl, fauth, ffirst, fresp, fgets, frefs, frefOk, fres,
                   reqs, ncalls, pending, session, out, spItems, spNext, pgItems, pgNext,
                   cmItems, cmNext, curSpace, curItem, curPage, handed, dropped, nextId,
                   nextCur, xvars>>

\* Variant: the comments of a blog post are traversed as those of a page
\* (the commented-out lines 528-538).
BlogYieldThenComments ==
    /\ pending /\ pc = "bl_loop" /\ blItems # <<>>
    /\ out' = Append(out, BlogPostEntity(Head(blItems), SpaceBreadcrumb(curSpace)))
    /\ curPage' = BlogPostEntity(Head(blItems), SpaceBreadcrumb(curSpace))
    /\ blItems' = Tail(blItems)
    /\ pending' = FALSE
    /\ pc' = "pg_body"
    /\ UNCHANGED <<tok, hasTM, hook, fvars, reqs, ncalls, session, spItems, spNext,
                   pgItems, pgNext, cmItems, cmNext, blNext, curSpace, curItem,
                   hvars, xvars>>

\* lines 350-362 and 526
BlogYield ==
    /\ pending /\ pc = "bl_loop" /\ blItems # <<>>
    /\ out' = Append(out, BlogPostEntity(Head(blItems), SpaceBreadcrumb(curSpace)))
    /\ blItems' = Tail(blItems)
    /\ pending' = FALSE
    /\ UNCHANGED <<tok, hasTM, hook, fvars, reqs, pc, ncalls, session, spItems, spNext,
                   pgItems, pgNext, cmItems, cmNext, blNext, curSpace, curItem, curPage,
                   hvars, xvars>>

\* Variant: after the blog posts the body of the space loop runs again.
BlogNextRestart ==
    /\ pending /\ pc = "bl_loop" /\ blItems = <<>>
    /\ IF NextUrl(blNext) # NoLink
       THEN furl' = NextUrl(blNext) /\ pc' = "bl_fetch"
       ELSE furl' = furl /\ pc' = "sp_body"
    /\ UNCHANGED <<tok, hasTM, hook, fpc, fauth, ffirst, fresp, fgets, frefs, frefOk, fres,
                   reqs, ncalls, pending, session, out, gvars, hvars, xvars>>

\* lines 364-365: the next page of blog posts, or back to the loop over spaces
BlogNext ==
    /\ pending /\ pc = "bl_loop" /\ blItems = <<>>
    /\ IF NextUrl(blNext) # NoLink
       THEN furl' = NextUrl(blNext) /\ pc' = "bl_fetch"
       ELSE furl' = furl /\ pc' = "sp_loop"
    /\ UNCHANGED <<tok, hasTM, hook, fpc, fauth, ffirst, fresp, fgets, frefs, frefOk, fres,
                   reqs, ncalls, pending, session, out, gvars, hvars, xvars>>

\* Variant: a failed fetch is taken as an empty answer: the loop around it
\* goes on with its next item.
FailAsEmpty ==
    /\ pending /\ pc \in FetchPcs \ {"call"} /\ fpc = "done" /\ fres.kind # "ok"
    /\ pc' = IF pc \in {"pd_fetch", "cm_fetch"} THEN "pg_loop" ELSE "sp_loop"
    /\ fpc' = "idle"
    /\ UNCHANGED <<tok, hasTM, hook, furl, fauth, ffirst, fresp, fgets, frefs, frefOk, fres,
                   reqs, ncalls, pending, session, out, gvars, hvars, xvars>>

\* Variant: a failed fetch is skipped and the loop over spaces goes on.
FailSkip ==
    /\ pending /\ pc \in FetchPcs \ {"call"} /\ fpc = "done" /\ fres.kind # "ok"
    /\ pc' = "sp_loop"
    /\ fpc' = "idle"
    /\ UNCHANGED <<tok, hasTM, hook, furl, fauth, ffirst, fresp, fgets, frefs, frefOk, fres,
                   reqs, ncalls, pending, session, out, gvars, hvars, xvars>>

\* Variant: the error leaves generate_entities without the client being closed.
FailLeak ==
    /\ pending /\ pc \in FetchPcs \ {"call"} /\ fpc = "done" /\ fres.kind # "ok"
    /\ pc' = "failed"
    /\ pending' = FALSE
    /\ UNCHANGED <<tok, hasTM, hook, fvars, reqs, ncalls, session, out, gvars, hvars, xvars>>

\* an error raised by _get_with_auth is caught nowhere: it leaves every
\* generator, the async with of line 467 closes the client, and the
\* consumer's __anext__ raises
Fail ==
    /\ pending /\ pc \in FetchPcs \ {"call"} /\ fpc = "done" /\ fres.kind # "ok"
    /\ pc' = "failed"
    /\ session' = "closed"
    /\ pending' = FALSE
    /\ UNCHANGED <<tok, hasTM, hook, fvars, reqs, ncalls, out, gvars, hvars, xvars>>

\* generate_entities runs on the client of line 467, httpx.AsyncClient():
\* its get returns the response whatever the status (HTTPStatusError comes
\* from raise_for_status only), so the except clause of line 181 is not
\* entered.
Init ==
    /\ InitCommon /\ NoStream /\ Alone /\ NoRequest
    /\ hasTM = TRUE
    /\ hook = FALSE
    /\ pc = "start" /\ pending = FALSE /\ session = "none"

Next ==
    \/ Pull \/ Open \/ BeginFetch \/ FirstGet \/ CheckResponse \/ Fail
    \/ SpacePage \/ SpaceYield \/ SpaceNext \/ PagesStart
    \/ PagePage \/ PageDetail \/ PageProcess \/ PageNext
    \/ CommentsStart \/ CommentPage \/ CommentYield \/ CommentNext
    \/ BlogPage \/ BlogYield \/ BlogNext

Spec == Init /\ [][Next]_vars

\* The consumer keeps pulling and the event loop keeps running the generator.
SpecLive == Spec /\ WF_vars(Next)

(***************************************************************************)
(* A consumer that ends the iteration early.  generate_entities is then    *)
(* suspended at one of its yields (lines 470, 488, 504, 526), inside the   *)
(* async with of line 467.                                                 *)
(***************************************************************************)
Suspended ==
    /\ ~pending
    /\ pc \notin {"start", "done", "failed", "closed", "abandoned", "driver", "call"}

\* The consumer calls aclose(): GeneratorExit is raised at the yield, the
\* async with closes the client, and aclose() returns after that.
Aclose ==
    /\ Suspended
    /\ pc' = "closed"
    /\ session' = "closed"
    /\ UNCHANGED <<tok, hasTM, hook, fvars, reqs, ncalls, pending, out, gvars, hvars, xvars>>

\* The consumer stops pulling and does not close the generator (it breaks
\* out of its async for, or its task is cancelled between two pulls):
\* nothing is raised inside generate_entities, which stays suspended.
Abandon ==
    /\ Suspended
    /\ pc' = "abandoned"
    /\ UNCHANGED <<tok, hasTM, hook, fvars, reqs, ncalls, pending, session, out, gvars, hvars,
                   xvars>>

\* The abandoned generator is closed when it is finalized (the aclose()
\* that the event loop schedules for a collected generator), if ever.
Finalize ==
    /\ pc = "abandoned"
    /\ pc' = "closed"
    /\ session' = "closed"
    /\ UNCHANGED <<tok, hasTM, hook, fvars, reqs, ncalls, pending, out, gvars, hvars, xvars>>

NextStop == Next \/ Aclose \/ Abandon \/ Finalize

SpecStop == Init /\ [][NextStop]_vars

(***************************************************************************)
(* Two engine instances, each made by ConfluenceSource.create (lines       *)
(* 150-159), run generate_entities on one event loop.  All an instance     *)
(* holds are attributes of self and locals of its generators; while it     *)
(* does not run, they are kept in other.  The loop passes from one to the  *)
(* other where the running one awaits the network or is suspended at a     *)
(* yield.  The upstream's supply of ids and cursors is common to both.     *)
(***************************************************************************)
Me ==
    [tok |-> tok, hasTM |-> hasTM, hook |-> hook, fvars |-> fvars, reqs |-> reqs, pc |-> pc,
     ncalls |-> ncalls, pending |-> pending, session |-> session, out |-> out,
     gvars |-> gvars, pagesLog |-> pagesLog, handed |-> handed, dropped |-> dropped,
     nsess |-> nsess]
AtAwait == ~pending \/ fpc \in {"get", "retry", "except"}

\* Variant: the token is kept in one place for all instances.
SwitchSharedToken ==
    /\ other # NoOther /\ AtAwait
    /\ other' = [Me EXCEPT !.tok = other.tok]
    /\ tok' = tok
    /\ hasTM' = other.hasTM /\ hook' = other.hook
    /\ fpc' = other.fvars[1] /\ furl' = other.fvars[2] /\ fauth' = other.fvars[3]
    /\ ffirst' = other.fvars[4] /\ fresp' = other.fvars[5] /\ fgets' = other.fvars[6]
    /\ frefs' = other.fvars[7] /\ frefOk' = other.fvars[8] /\ fres' = other.fvars[9]
    /\ reqs' = other.reqs /\ pc' = other.pc /\ ncalls' = other.ncalls
    /\ pending' = other.pending /\ session' = other.session /\ out' = other.out
    /\ spItems' = other.gvars[1] /\ spNext' = other.gvars[2]
    /\ pgItems' = other.gvars[3] /\ pgNext' = other.gvars[4]
    /\ cmItems' = other.gvars[5] /\ cmNext' = other.gvars[6]
    /\ blItems' = other.gvars[7] /\ blNext' = other.gvars[8]
    /\ curSpace' = other.gvars[9] /\ curItem' = other.gvars[10] /\ curPage' = other.gvars[11]
    /\ pagesLog' = other.pagesLog /\ handed' = other.handed /\ dropped' = other.dropped
    /\ nsess' = other.nsess
    /\ UNCHANGED <<nextId, nextCur, svars, avars>>

\* The event loop passes from the running instance to the other one.
Switch ==
    /\ other # NoOther /\ AtAwait
    /\ other' = Me
    /\ tok' = other.tok /\ hasTM' = other.hasTM /\ hook' = other.hook
    /\ fpc' = other.fvars[1] /\ furl' = other.fvars[2] /\ fauth' = other.fvars[3]
    /\ ffirst' = other.fvars[4] /\ fresp' = other.fvars[5] /\ fgets' = other.fvars[6]
    /\ frefs' = other.fvars[7] /\ frefOk' = other.fvars[8] /\ fres' = other.fvars[9]
    /\ reqs' = other.reqs /\ pc' = other.pc /\ ncalls' = other.ncalls
    /\ pending' = other.pending /\ session' = other.session /\ out' = other.out
    /\ spItems' = other.gvars[1] /\ spNext' = other.gvars[2]
    /\ pgItems' = other.gvars[3] /\ pgNext' = other.gvars[4]
    /\ cmItems' = other.gvars[5] /\ cmNext' = other.gvars[6]
    /\ blItems' = other.gvars[7] /\ blNext' = other.gvars[8]
    /\ curSpace' = other.gvars[9] /\ curItem' = other.gvars[10] /\ curPage' = other.gvars[11]
    /\ pagesLog' = other.pagesLog /\ handed' = other.handed /\ dropped' = other.dropped
    /\ nsess' = other.nsess
    /\ UNCHANGED <<nextId, nextCur, svars, avars>>

\* Both instances as create() made them, with clients of either kind.
InitTwo ==
    /\ InitCommon /\ NoStream /\ NoRequest
    /\ hasTM = TRUE
    /\ hook \in BOOLEAN
    /\ pc = "start" /\ pending = FALSE /\ session = "none"
    /\ other = Me

NextTwo == Next \/ HandleStatusError \/ RetryGet \/ Switch

SpecTwo == InitTwo /\ [][NextTwo]_vars

(***************************************************************************)
(* AsyncIteratorWrapper (lines 40-76), read by whoever was handed the      *)
(* content stream.  The wrapped iterator is the sequence of what its       *)
(* next() does from now on: a chunk it returns, or Stop where it raises    *)
(* StopIteration; at its end it raises StopIteration.  An iterator may     *)
(* return chunks again after it has raised StopIteration; the list         *)
(* iterator of line 325 is <<chunk>>.                                      *)
(***************************************************************************)
Chunks == {"a", "b"}
Stop == "StopIteration"
EOS == "StopAsyncIteration"
Iterators == UNION {[1..n -> Chunks \cup {Stop}] : n \in 0..MaxChunks}
\* next(self.sync_iter) raises StopIteration
RaisesStop(it) == it = <<>> \/ Head(it) = Stop
Advance(it) == IF it = <<>> THEN <<>> ELSE Tail(it)

\* Variant: __anext__ without the _consumed flag.
AnextUnguarded ==
    /\ Len(got) < MaxReads
    /\ nreads' = nreads + 1
    /\ sync_iter' = Advance(sync_iter)
    /\ IF RaisesStop(sync_iter)
       THEN consumed' = TRUE /\ got' = Append(got, EOS)
       ELSE consumed' = consumed /\ got' = Append(got, Head(sync_iter))
    /\ UNCHANGED <<pvars, nextId, nextCur, wrapped, tvars, avars>>

\* lines 60-76: __anext__
Anext ==
    /\ Len(got) < MaxReads
    /\ IF consumed
       THEN /\ got' = Append(got, EOS)
            /\ UNCHANGED <<sync_iter, consumed, nreads>>
       ELSE /\ nreads' = nreads + 1
            /\ sync_iter' = Advance(sync_iter)
            /\ IF RaisesStop(sync_iter)
               THEN consumed' = TRUE /\ got' = Append(got, EOS)
               ELSE consumed' = consumed /\ got' = Append(got, Head(sync_iter))
    /\ UNCHANGED <<pvars, nextId, nextCur, wrapped, tvars, avars>>

\* lines 43-50: __init__, for any wrapped iterator
InitStream ==
    /\ InitCommon /\ Alone /\ NoRequest
    /\ hasTM = TRUE /\ hook = FALSE
    /\ pc = "start" /\ pending = FALSE /\ session = "none"
    /\ wrapped \in Iterators
    /\ sync_iter = wrapped
    /\ consumed = FALSE /\ got = <<>> /\ nreads = 0

NextStream == Anext

SpecStream == InitStream /\ [][NextStream]_vars

(***************************************************************************)
(* get_auth_context (api/deps.py), the dependency that gives every API     *)
(* request its AuthContext.  The database is what its lookups give: the    *)
(* user that get_by_email finds or not, the API key that get_by_key finds  *)
(* or fails on, at the first lookup (line 43) and at the second (line 99). *)
(***************************************************************************)
Orgs == {"o1", "o2"}
Truthy(x) == x # Null /\ x # ""
User(primary, orgs) ==
    [primary_organization_id |-> primary, user_organizations |-> orgs, found |-> TRUE]
ApiKey(org) == [organization_id |-> org, found |-> TRUE, error |-> "none"]
\* crud.api_key.get_by_key raising NotFoundException, or ValueError
KeyFails(e) == [organization_id |-> Null, found |-> FALSE, error |-> e]
Users == {NoUser} \cup {User(p, os) : p \in Orgs \cup {Null}, os \in SUBSET Orgs}
\* A key that was found is found again with the same organization, unless
\* it has expired or been deleted in between.
KeyLookups ==
    UNION {{<<ApiKey(o), again>> :
                again \in {ApiKey(o), KeyFails("expired"), KeyFails("not found")}} : o \in Orgs}
    \cup {<<KeyFails(e), KeyFails(e)>> : e \in {"expired", "not found"}}

Context(org, method) ==
    [kind |-> "context", status |-> 200, organization_id |-> org, auth_method |-> method]
HTTPException(status) ==
    [kind |-> "http", status |-> status, organization_id |-> Null, auth_method |-> ""]
\* an exception that is not an HTTPException leaves get_auth_context
Unhandled == [kind |-> "error", status |-> 500, organization_id |-> Null, auth_method |-> ""]
Authenticated(user, method, metadata) ==
    [raised |-> NoOutcome, user |-> user, method |-> method, metadata |-> metadata]
NotAuthenticated == Authenticated(NoUser, "", NoMetadata)
Raising(e) == [raised |-> e, user |-> NoUser, method |-> "", metadata |-> NoMetadata]

\* lines 18-24
AuthenticateSystemUser ==
    IF db.user.found THEN Authenticated(db.user, "system", [of |-> "system", organization_id |-> Null])
    ELSE NotAuthenticated
\* lines 27-37
AuthenticateAuth0User ==
    IF ~db.user.found THEN NotAuthenticated
    ELSE Authenticated(db.user, "auth0", [of |-> "auth0", organization_id |-> Null])
\* lines 40-54
AuthenticateApiKey ==
    IF db.api_key.found
    THEN Authenticated(NoUser, "api_key",
                       [of |-> "api_key", organization_id |-> db.api_key.organization_id])
    ELSE Raising(HTTPException(403))

\* lines 57-77: the organization id, or Null where HTTPException(400) is raised
ResolveOrganizationId(x_org, user, method, metadata) ==
    IF Truthy(x_org) THEN x_org
    ELSE IF method \in {"system", "auth0"} /\ user.found
         THEN IF Truthy(user.primary_organization_id) THEN user.primary_organization_id
              ELSE Null
         ELSE IF method = "api_key" THEN metadata.organization_id
         ELSE Null

\* lines 80-104: what _validate_organization_access raises, if anything
ValidateOrganizationAccess(org, user, method, api_key) ==
    IF user.found /\ method \in {"auth0", "system"}
    THEN IF org \notin user.user_organizations THEN HTTPException(403) ELSE NoOutcome
    ELSE IF method = "api_key" /\ Truthy(api_key)
         THEN IF ~db.api_key_again.found THEN Unhandled
              ELSE IF db.api_key_again.organization_id # org THEN HTTPException(403)
              ELSE NoOutcome
         ELSE NoOutcome

\* lines 133-146
Authenticate ==
    /\ apc = "authenticate"
    /\ LET a == IF ~AUTH_ENABLED THEN AuthenticateSystemUser
                ELSE IF auth0_user # Null THEN AuthenticateAuth0User
                ELSE IF Truthy(x_api_key) THEN AuthenticateApiKey
                ELSE NotAuthenticated
       IN /\ user_context' = a.user
          /\ auth_method' = a.method
          /\ auth_metadata' = a.metadata
          /\ IF a.raised # NoOutcome THEN apc' = "end" /\ ares' = a.raised
             ELSE IF a.method = "" THEN apc' = "end" /\ ares' = HTTPException(401)
             ELSE apc' = "resolve" /\ ares' = ares
    /\ UNCHANGED <<pvars, hvars, svars, tvars, ivars, organization_id>>

\* lines 148-151
ResolveOrganization ==
    /\ apc = "resolve"
    /\ LET org == ResolveOrganizationId(x_organization_id, user_context, auth_method,
                                        auth_metadata)
       IN IF org = Null
          THEN apc' = "end" /\ ares' = HTTPException(400) /\ organization_id' = organization_id
          ELSE apc' = "validate" /\ ares' = ares /\ organization_id' = org
    /\ UNCHANGED <<pvars, hvars, svars, tvars, ivars, user_context, auth_method, auth_metadata>>

\* lines 153-161
ValidateAndReturn ==
    /\ apc = "validate"
    /\ LET raised == ValidateOrganizationAccess(organization_id, user_context, auth_method,
                                                x_api_key)
       IN ares' = IF raised # NoOutcome THEN raised
                  ELSE Context(organization_id, auth_method)
    /\ apc' = "end"
    /\ UNCHANGED <<pvars, hvars, svars, tvars, ivars, user_context, auth_method, auth_metadata,
                   organization_id>>

\* A request, with any headers, against any database.
InitAuth ==
    /\ InitCommon /\ NoStream /\ Alone
    /\ hasTM = TRUE /\ hook = FALSE
    /\ pc = "start" /\ pending = FALSE /\ session = "none"
    /\ AUTH_ENABLED \in BOOLEAN
    /\ auth0_user \in {Null, "alice"}
    /\ x_api_key \in {Null, "key"}
    /\ x_organization_id \in Orgs \cup {Null, ""}
    /\ \E u \in Users, k \in KeyLookups :
         db = [user |-> u, api_key |-> k[1], api_key_again |-> k[2]]
    /\ user_context = NoUser /\ auth_method = "" /\ auth_metadata = NoMetadata
    /\ organization_id = Null /\ apc = "authenticate" /\ ares = NoOutcome

NextAuth == Authenticate \/ ResolveOrganization \/ ValidateAndReturn

SpecAuth == InitAuth /\ [][NextAuth]_vars

(***************************************************************************)
(* Properties of _get_with_auth.                                           *)
(***************************************************************************)
LastReq == reqs[Len(reqs)]
PrevReq == reqs[Len(reqs) - 1]

\* C1: with a token manager, a first GET answered 401 without a scope
\* indicator leads to exactly one refresh_on_unauthorized() call; when that
\* returns true the same URL is requested exactly once more with the new
\* token, and a successful retry makes the fetch return its JSON body.
C1_RefreshAndRetryOn401 ==
    (fpc = "done" /\ hasTM /\ ffirst.status = 401 /\ ~HasScopeIndicator(ffirst)) =>
        /\ frefs = 1
        /\ frefOk =>
            /\ fgets = 2
            /\ LastReq.url = PrevReq.url
            /\ LastReq.auth = tok /\ LastReq.auth # PrevReq.auth
            /\ (IsSuccess(fresp) /\ fresp.body = "json") => fres = Returned(fresp.data)

\* C2: within one fetch refresh_on_unauthorized() is called at most once and
\* at most two GETs are sent; a retried request answered 401 again ends the
\* fetch in an error, with the one refresh and the two requests.
C2_AtMostOneRefreshTwoGets ==
    /\ frefs <= 1
    /\ fgets <= 2
    /\ (fgets = 2 /\ fresp.status = 401) =>
            /\ fpc \in {"done", "idle"}
            /\ fres.kind \in {"http", "scope", "decode"}
            /\ frefs = 1

C2_SecondUnauthorized ==
    /\ fpc = "done" /\ fgets = 2 /\ frefs = 1 /\ frefOk
    /\ ffirst.status = 401 /\ fresp.status = 401
    /\ fres.kind = "http"

\* C3: a GET answered 401 with a scope indicator makes the fetch fail with
\* the scope error, without any refresh and without a second request.
C3_ScopeErrorBypassesRefresh ==
    (fpc = "done" /\ ffirst.status = 401 /\ HasScopeIndicator(ffirst)) =>
        /\ fres.kind = "scope"
        /\ frefs = 0
        /\ fgets = 1

\* C9: after a 401 without a scope indicator and a refresh that returned
\* false, the fetch has failed with the HTTP error of the first request and
\* no second GET was sent.
C9_FailedRefreshPropagates ==
    (ffirst.status = 401 /\ ~HasScopeIndicator(ffirst) /\ frefs = 1 /\ ~frefOk) =>
        /\ fpc \in {"done", "idle"}
        /\ fres = Raised("http", ffirst, 1)
        /\ fgets = 1

C9_RefreshFailed ==
    /\ fpc = "done" /\ ffirst.status = 401 /\ ~HasScopeIndicator(ffirst)
    /\ frefs = 1 /\ ~frefOk /\ fres.kind = "http"

\* C10: a response with a status that is neither 2xx nor 401 fails the fetch
\* with the HTTP error of that request; when it answers the first GET there
\* is exactly one GET and no refresh, and no request follows it.
C10_OtherStatusNotRetried ==
    /\ ffirst.status \in OtherStatus => (fgets = 1 /\ frefs = 0)
    /\ (fpc = "done" /\ ffirst.status \in OtherStatus) => fres = Raised("http", ffirst, 1)
    /\ (fpc = "done" /\ fresp.status \in OtherStatus) => fres = Raised("http", fresp, fgets)
    /\ (fresp.status \in OtherStatus /\ fgets = 2) => fpc \in {"done", "idle"}

C10_ServerError ==
    /\ fpc = "done" /\ hasTM /\ hook /\ ffirst.status = 500
    /\ fgets = 1 /\ frefs = 0 /\ fres.kind = "http"

(***************************************************************************)
(* Properties of the traversal.  They are stated against what the upstream *)
(* served (pagesLog) and what was requested (reqs).                        *)
(***************************************************************************)
RECURSIVE ConcatResults(_)
ConcatResults(ps) == IF ps = <<>> THEN <<>> ELSE Head(ps).results \o ConcatResults(Tail(ps))

Ids(rs) == [i \in 1..Len(rs) |-> rs[i].id]
IsPrefix(a, b) == Len(a) <= Len(b) /\ \A i \in 1..Len(a) : a[i] = b[i]
ListKinds == {"spaces", "pages", "inline-comments", "blogposts"}
RecordKind(k) ==
    CASE k = "spaces" -> "space" [] k = "pages" -> "page"
      [] k = "inline-comments" -> "comment" [] k = "blogposts" -> "blogpost"
      [] OTHER -> "none"

PagesOf(L) == SelectSeq(pagesLog, LAMBDA e : e.key = L)
ReqsOf(L) == SelectSeq(reqs, LAMBDA r : r.key = L)
Listed(L) == Ids(ConcatResults(PagesOf(L)))
Listings == {pagesLog[i].key : i \in DOMAIN pagesLog}
ReqListings == {reqs[i].key : i \in {n \in DOMAIN reqs : reqs[n].key.kind \in ListKinds}}
ListedOfKind(k) ==
    UNION {{pagesLog[i].results[j].id : j \in DOMAIN pagesLog[i].results} :
           i \in {n \in DOMAIN pagesLog : pagesLog[n].key.kind = k}}
HasId(e, id) == \E j \in DOMAIN e.results : e.results[j].id = id
\* The listing in which the upstream served each item.
HomeKey(id) ==
    IF \E i \in DOMAIN pagesLog : HasId(pagesLog[i], id)
    THEN pagesLog[CHOOSE i \in DOMAIN pagesLog : HasId(pagesLog[i], id)].key
    ELSE NoKey
Homes == [id \in 0..nextId |-> HomeKey(id)]
OutOf(home, L) ==
    Ids(SelectSeq(out, LAMBDA r : home[r.id] = L /\ r.kind = RecordKind(L.kind)))
NotDropped(ids) == SelectSeq(ids, LAMBDA id : id \notin dropped)

Complete ==
    LET home == Homes
        lists == Listings
    IN /\ \A i \in DOMAIN out :
            /\ home[out[i].id] # NoKey
            /\ out[i].kind = RecordKind(home[out[i].id].kind)
       /\ SpacesKey \in lists
       /\ \A L \in lists :
            LET P == PagesOf(L)
                listed == Ids(ConcatResults(P))
            IN /\ OutOf(home, L) = listed
               /\ P[Len(P)].next = NoLink
               /\ \A i \in DOMAIN listed :
                    /\ L.kind = "spaces" =>
                        {Key("pages", listed[i]), Key("blogposts", listed[i])} \subseteq lists
                    /\ L.kind = "pages" => Key("inline-comments", listed[i]) \in lists

\* C4: over finite upstream data, without fetch errors and with every page
\* accepted by the content extraction, generate_entities ends, and its
\* output holds every space, page, comment and blog post exactly once, the
\* items of each listing in arrival order.
C4_TerminatesComplete ==
    /\ <>(pc \in {"done", "failed"})
    /\ []((pc = "done" /\ dropped = {}) => Complete)

C4_AllEmitted ==
    /\ pc = "done" /\ dropped = {} /\ Len(out) = 3 /\ Len(pagesLog) > 3
    /\ out[1].kind = "space" /\ out[2].kind = "page" /\ out[3].kind = "comment"

\* The listings whose loop is still running.
Active ==
    (IF pc \in {"done", "failed"} THEN {} ELSE {SpacesKey})
    \cup (IF pc \in {"pg_fetch", "pg_loop", "pd_fetch", "pg_body", "cm_fetch", "cm_loop"}
          THEN {Key("pages", curSpace.id)} ELSE {})
    \cup (IF pc \in {"cm_fetch", "cm_loop"} THEN {Key("inline-comments", curPage.id)} ELSE {})
    \cup (IF pc \in {"bl_fetch", "bl_loop"} THEN {Key("blogposts", curSpace.id)} ELSE {})
ListUrl(L) == BaseUrl \o <<Tok("list", L.kind, L.parent)>>

Spaces(home) ==
    [i \in DOMAIN out |->
        IF out[i].kind = "space" THEN out[i].id
        ELSE IF out[i].kind = "comment" THEN home[home[out[i].id].parent].parent
        ELSE home[out[i].id].parent]

CrumbOf(r) ==
    [id |-> r.id, name |-> IF r.name = Null THEN "" ELSE r.name,
     kind |-> IF r.kind = "space" THEN "space" ELSE "page"]
Emitted(kind, id) == \E i \in DOMAIN out : out[i].kind = kind /\ out[i].id = id
RecordOf(kind, id) == out[CHOOSE i \in DOMAIN out : out[i].kind = kind /\ out[i].id = id]

\* C7: the lineage of a page or blog post is the breadcrumb of its space as
\* emitted; the lineage of a comment is the breadcrumb of the space followed
\* by the breadcrumb of its page as emitted.
C7_LineageEndsWithParent ==
    LET home == Homes
    IN \A i \in DOMAIN out :
        LET r == out[i]
            parent == home[r.id].parent
        IN /\ r.kind \in {"page", "blogpost"} =>
                /\ Emitted("space", parent)
                /\ r.lineage = <<CrumbOf(RecordOf("space", parent))>>
           /\ r.kind = "comment" =>
                /\ Emitted("page", parent)
                /\ Emitted("space", home[parent].parent)
                /\ r.lineage = <<CrumbOf(RecordOf("space", home[parent].parent)),
                                 CrumbOf(RecordOf("page", parent))>>

C7_EngDesign ==
    \E i \in DOMAIN out :
        /\ out[i].kind = "comment"
        /\ out[i].lineage = <<[id |-> 1, name |-> "Eng", kind |-> "space"],
                              [id |-> 2, name |-> "Design", kind |-> "page"]>>

\* C8: a page is in the output only when it was handed to the content
\* extraction and that returned an entity; a page for which it returned
\* nothing is nowhere in the output, raises no error, and the pages listed
\* after it are still processed.
C8_MaterializationFilter ==
    /\ dropped \subseteq handed
    /\ \A i \in DOMAIN out :
        /\ out[i].id \notin dropped
        /\ out[i].kind = "page" => out[i].id \in handed
    /\ pc = "done" => ListedOfKind("pages") \subseteq handed
    /\ pc = "failed" => (fpc = "done" /\ fres.kind \in {"http", "scope", "decode"})

C8_DroppedThenEmitted ==
    /\ pc = "done"
    /\ \E d \in dropped : \E i \in DOMAIN out :
        /\ out[i].kind = "page" /\ out[i].id > d
        /\ HomeKey(out[i].id) = HomeKey(d)

\* C11: once a fetch of the traversal has failed (in the space, page, page
\* detail, comment or blog post fetch), the only step left is the one that
\* raises the error out of generate_entities: no record is emitted and no
\* request is sent after the failure, whatever spaces and pages are left.
C11_FaultAbortsSequence ==
    [][((fpc = "done" /\ fres.kind # "ok") \/ pc = "failed")
          => (pc' = "failed" /\ out' = out /\ reqs' = reqs)]_vars

C11_DetailFetchFailed ==
    /\ pc = "failed" /\ fres.kind = "scope"
    /\ LastReq.key.kind = "detail"
    /\ spItems # <<>> /\ Len(out) = 1

\* C12: when the consumer has taken at least one record and then ended the
\* iteration before the end of the output, the session that
\* generate_entities opened is closed.
C12_EarlyStopClosesSession ==
    (pc \in {"closed", "abandoned"} /\ Len(out) >= 1) => session = "closed"

\* C13: when generate_entities has ended, by normal completion or by a
\* fetch error, the consumer sees the end or the error with the session
\* closed, and the run has opened exactly one session; a session is never
\* opened twice.
C13_SessionClosedAtEnd ==
    /\ nsess <= 1
    /\ (nsess = 0) <=> (session = "none")
    /\ pc \in {"done", "failed"} => (session = "closed" /\ nsess = 1 /\ ~pending)
    /\ session = "closed" => pc \in {"done", "failed"}

C13_ClosedAfterFault ==
    /\ pc = "failed" /\ session = "closed" /\ nsess = 1
    /\ Len(out) = 2 /\ LastReq.key.kind = "inline-comments"

\* C14: nothing is requested, opened or handed to the content extraction
\* before the first pull; a request is sent and a page is handed to the
\* content extraction only while a pull of the consumer is pending; every
\* record delivered ends the pending pull, so that nothing is requested
\* between a delivery and the next pull.
C14_PullBased ==
    /\ []((pc = "start" /\ ~pending) => (reqs = <<>> /\ handed = {} /\ session = "none"))
    /\ [][/\ (reqs' # reqs \/ handed' # handed) => pending
          /\ out' # out => (pending /\ ~pending')
          /\ ~pending => (reqs' = reqs /\ handed' = handed /\ out' = out)]_vars

C14_IdleBetweenPulls ==
    /\ ~pending /\ pc = "pg_body"
    /\ Len(out) = 2 /\ Len(reqs) = 3 /\ handed # {}

\* What the reads of the wrapper delivered, and what the wrapped iterator
\* holds before it first raises StopIteration.
Delivered == SelectSeq(got, LAMBDA x : x # EOS)
FirstRun(it) ==
    LET stops == {i \in DOMAIN it : it[i] = Stop}
    IN IF stops = {} THEN it
       ELSE SubSeq(it, 1, (CHOOSE i \in stops : \A j \in stops : i <= j) - 1)

\* C15: the reads of an AsyncIteratorWrapper deliver the chunks of the
\* wrapped iterator in order, each once; after the first end-of-stream
\* every read reports end-of-stream, delivers nothing and does not read the
\* wrapped iterator again.
C15_SingleConsumption ==
    /\ IsPrefix(Delivered, FirstRun(wrapped))
    /\ \A i \in DOMAIN got : \A j \in DOMAIN got : (i < j /\ got[i] = EOS) => got[j] = EOS
    /\ consumed <=> (\E i \in DOMAIN got : got[i] = EOS)
    /\ consumed => (Delivered = FirstRun(wrapped) /\ nreads = Len(FirstRun(wrapped)) + 1)
    /\ ~consumed => nreads = Len(got)

C15_ReadAfterEnd ==
    /\ wrapped = <<"a", Stop, "b">>
    /\ got = <<"a", EOS, EOS>>
    /\ nreads = 2 /\ sync_iter = <<"b">>

\* The detail requests sent for a page, and the listing page that served it.
DetailReqs(id) == {i \in DOMAIN reqs : reqs[i].key = Key("detail", id)}
AllDetailReqs == {i \in DOMAIN reqs : reqs[i].key.kind = "detail"}
ServedIn(id) == pagesLog[CHOOSE n \in DOMAIN pagesLog : HasId(pagesLog[n], id)]

\* C16: a detail request is sent only for a page that a page listing has
\* returned, after the request of that listing page, at the detail URL of
\* the page, and at most once per page; a page is handed to the content
\* extraction and emitted only after its detail request; when the traversal
\* has completed, every listed page has had exactly one detail request.
C16_OneDetailPerPage ==
    LET listed == ListedOfKind("pages")
    IN /\ \A i \in AllDetailReqs :
            LET id == reqs[i].key.parent
            IN /\ id \in listed
               /\ reqs[i].url = PageDetailUrl(id)
               /\ \E j \in 1..(i - 1) :
                    reqs[j].key = ServedIn(id).key /\ reqs[j].url = ServedIn(id).url
       /\ \A id \in listed : Cardinality(DetailReqs(id)) <= 1
       /\ \A id \in handed : DetailReqs(id) # {}
       /\ \A i \in DOMAIN out : out[i].kind = "page" => DetailReqs(out[i].id) # {}
       /\ pc = "done" =>
            /\ \A id \in listed : Cardinality(DetailReqs(id)) = 1
            /\ Cardinality(AllDetailReqs) = Cardinality(listed)

C16_TwoPagesTwoDetails ==
    /\ pc = "done"
    /\ Cardinality(ListedOfKind("pages")) = 2
    /\ Cardinality(AllDetailReqs) = 2
    /\ Len(ReqsOf(Key("pages", 1))) = 1

\* What holds of an instance m that runs alone: each request carries the
\* token m held when it was sent (the token m was created with, refreshed
\* once for every retried request of m), and every request and record of m
\* is about the space listing or about an item or a next link that the
\* upstream served to m.
RetriedUpTo(rs, n) == {j \in 2..n : rs[j].url = rs[j - 1].url}
OwnToken(m) ==
    /\ \A i \in DOMAIN m.reqs : m.reqs[i].auth = 1 + Cardinality(RetriedUpTo(m.reqs, i))
    /\ m.tok = 1 + Cardinality(RetriedUpTo(m.reqs, Len(m.reqs)))
                 + (IF m.fvars[1] = "retry" THEN 1 ELSE 0)
ServedTo(m) ==
    UNION {{m.pagesLog[n].results[j].id : j \in DOMAIN m.pagesLog[n].results} :
           n \in DOMAIN m.pagesLog}
LinksTo(m) == {m.pagesLog[n].next : n \in DOMAIN m.pagesLog} \ {NoLink}
OwnCursor(m) ==
    /\ \A i \in DOMAIN m.reqs :
        \/ m.reqs[i].url = SpacesUrl
        \/ \E l \in LinksTo(m) : m.reqs[i].url = BaseUrl \o l
        \/ \E id \in ServedTo(m) :
            m.reqs[i].url \in {PagesUrl(id), PageDetailUrl(id), BlogPostsUrl(id),
                               CommentsUrl(id)}
    /\ \A i \in DOMAIN m.out : m.out[i].id \in ServedTo(m)

EnabledKinds == {"space", "page", "comment", "blogpost"}
EnabledEndpoints == {"spaces", "pages", "inline-comments", "blogposts"}
DisabledUrls ==
    {LabelsUrl} \cup {DatabasesUrl(id) : id \in 0..nextId} \cup {FoldersUrl(id) : id \in 0..nextId}
\* The first request of a listing, or of the details of a page: a request
\* that does not follow a next link.
IsFirstReq(r) == r.url[Len(r.url)].t # "next"
\* The URL on which the traversal first requests a listing or a page.
FirstUrl(key) ==
    CASE key.kind = "spaces" -> SpacesUrl
      [] key.kind = "pages" -> PagesUrl(key.parent)
      [] key.kind = "detail" -> PageDetailUrl(key.parent)
      [] key.kind = "inline-comments" -> CommentsUrl(key.parent)
      [] key.kind = "blogposts" -> BlogPostsUrl(key.parent)
      [] OTHER -> NoLink

UpstreamName(kind, id) == IF kind = "space" THEN NameOf(id) ELSE TitleOf(id)

Auths == [i \in DOMAIN reqs |-> reqs[i].auth]

\* C20: a GET carries the token the provider returned when the fetch
\* started, which is the provider's token when the GET is sent; the retried
\* GET goes to the same URL with the token the provider returns after the
\* refresh, which is not the token that was rejected; the tokens of the
\* requests of an instance never go back to one that a refresh replaced.
C20_BearerIsCurrentToken ==
    /\ [](/\ fpc = "get" => fauth = GetAccessToken
          /\ fpc = "retry" =>
                /\ frefOk /\ fauth = GetAccessToken
                /\ LastReq.auth # fauth /\ fauth = RefreshedToken(LastReq.auth)
          /\ \A i \in DOMAIN reqs :
                /\ reqs[i].auth <= tok
                /\ i > 1 => reqs[i].auth \in {reqs[i - 1].auth, RefreshedToken(reqs[i - 1].auth)}
          /\ (reqs # <<>> /\ fpc # "retry") => LastReq.auth = GetAccessToken)
    /\ [][reqs' # reqs =>
            /\ reqs' = Append(reqs, [url |-> furl, auth |-> fauth, key |-> LastReq'.key])
            /\ LastReq'.auth = GetAccessToken
            /\ fpc = "retry" => (LastReq'.url = LastReq.url /\ LastReq'.auth # LastReq.auth)]_vars

\* A first fetch whose GET was rejected and retried with the refreshed
\* token, and a second fetch that starts with the refreshed token.
C20_RefreshedTokenKept ==
    /\ ncalls = 2 /\ fgets = 1 /\ fpc = "check"
    /\ Auths = <<1, 2, 2>>
    /\ tok = 2

(***************************************************************************)
(* Resolution of next links.                                               *)
(***************************************************************************)
IsAbsolute(link) == link # NoLink /\ Head(link).t = "base"
\* The absolute URL a next link stands for.
Resolved(link) == IF IsAbsolute(link) THEN link ELSE BaseUrl \o link

\* C21: the request that follows a page with a next link goes to the
\* absolute URL the link stands for: the link itself if it is absolute,
\* the base URL followed by the link if it is relative.
C21_NextLinkResolved ==
    \A L \in ReqListings :
        LET P == PagesOf(L)
            R == ReqsOf(L)
        IN \A i \in 2..Len(R) : i - 1 <= Len(P) => R[i].url = Resolved(P[i - 1].next)

(***************************************************************************)
(* Pages for which the content extraction returned nothing.                *)
(***************************************************************************)
CommentReqs(id) == {i \in DOMAIN reqs : reqs[i].key = Key("inline-comments", id)}
Under(id) ==
    {i \in DOMAIN out : out[i].lineage # <<>> /\ out[i].lineage[Len(out[i].lineage)].id = id}

\* C22: of a page for which process_file_entity_with_content returned
\* nothing, the details have been requested, but its comment listing is
\* never requested, neither it nor a record whose lineage ends in it is
\* emitted.
C22_DroppedPageNoComments ==
    \A id \in dropped :
        /\ Cardinality(DetailReqs(id)) = 1
        /\ CommentReqs(id) = {}
        /\ Under(id) = {}
        /\ \A i \in DOMAIN out : out[i].id # id
        /\ \A i \in DOMAIN reqs : reqs[i].url # CommentsUrl(id)

\* Of two listed pages the first was dropped and the second emitted: the
\* comments of the second only have been requested.
C22_DroppedThenCommented ==
    /\ dropped = {2}
    /\ Cardinality(DetailReqs(2)) = 1
    /\ Cardinality(CommentReqs(3)) = 1
    /\ pc = "done"

(***************************************************************************)
(* The order of the requests.                                              *)
(***************************************************************************)
\* The listing of the request that is the last one sent for a page of the
\* page listing and what is below it: its comment listing, or its details
\* if the content extraction returned nothing for it.
LastOf(id) == IF id \in dropped THEN Key("detail", id) ELSE Key("inline-comments", id)
\* The position of an item in the listing page that served it.
PosIn(e, id) == CHOOSE j \in DOMAIN e.results : e.results[j].id = id
\* Request n is the one that got the listing page e.
Got(n, e) == reqs[n].key = e.key /\ reqs[n].url = e.url
\* Request n is the last of the listing page e and all that is below it.
Exhausts(n, e) ==
    IF e.results = <<>> THEN Got(n, e)
    ELSE reqs[n].key = LastOf(e.results[Len(e.results)].id)

\* C23: the requests are sent in depth-first order.  A comment request of
\* a page directly follows the detail request or a comment request of that
\* page.  A detail request directly follows the request of the listing
\* page if the page is the first listed there, and else the last request
\* of the page listed before it: its last comment request, or its detail
\* request if it was not emitted.  A further page of a page listing is
\* requested directly after the last request of the page before, and the
\* blog posts of a space are first requested directly after the last
\* request of the last page of its page listing.
C23_RequestsDepthFirst ==
    \A n \in DOMAIN reqs :
        LET k == reqs[n].key
        IN /\ k.kind = "inline-comments" =>
                /\ n > 1
                /\ k.parent \notin dropped
                /\ reqs[n - 1].key \in {Key("detail", k.parent), k}
           /\ k.kind = "detail" =>
                LET e == ServedIn(k.parent)
                    j == PosIn(e, k.parent)
                IN /\ n > 1
                   /\ IF j = 1 THEN Got(n - 1, e)
                      ELSE reqs[n - 1].key = LastOf(e.results[j - 1].id)
           /\ (k.kind = "pages" /\ ~IsFirstReq(reqs[n])) =>
                \E i \in DOMAIN pagesLog :
                    /\ pagesLog[i].key = k
                    /\ BaseUrl \o pagesLog[i].next = reqs[n].url
                    /\ Exhausts(n - 1, pagesLog[i])
           /\ (k.kind = "blogposts" /\ IsFirstReq(reqs[n])) =>
                LET P == PagesOf(Key("pages", k.parent))
                IN /\ P # <<>>
                   /\ P[Len(P)].next = NoLink
                   /\ Exhausts(n - 1, P[Len(P)])

\* Two pages listed on one listing page, both emitted: the comments of
\* the first are requested between the two detail requests.
C23_CommentsBetweenDetails ==
    /\ Len(reqs) = 7
    /\ [i \in 1..7 |-> reqs[i].key.kind] =
         <<"spaces", "pages", "detail", "inline-comments", "detail", "inline-comments",
           "blogposts">>
    /\ reqs[3].key.parent = 2 /\ reqs[4].key.parent = 2 /\ reqs[5].key.parent = 3

(***************************************************************************)
(* The output of the traversal without faults, as far as the data that the *)
(* upstream has served determine it: the depth-first walk over the served  *)
(* listing pages, up to the first listing page, or page, that has not been *)
(* served.  Whatever the upstream serves there, the output without faults  *)
(* begins with this walk.                                                  *)
(***************************************************************************)
Walk(recs, full) == [recs |-> recs, full |-> full]
\* walk a, and walk b after it if a came to its end
Then(a, b) == IF a.full THEN Walk(a.recs \o b.recs, b.full) ELSE a
\* a listing has been served to its end
ServedWhole(L) == PagesOf(L) # <<>> /\ PagesOf(L)[Len(PagesOf(L))].next = NoLink
ItemsOf(L) == ConcatResults(PagesOf(L))
EndOf(L) == Walk(<<>>, ServedWhole(L))

RefComments(page_entity, space_entity) ==
    LET L == Key("inline-comments", page_entity.id)
        crumbs == PageBreadcrumbs(SpaceBreadcrumb(space_entity), page_entity)
    IN Walk([i \in DOMAIN ItemsOf(L) |-> CommentEntity(ItemsOf(L)[i], crumbs)], ServedWhole(L))

RefPage(page, space_entity) ==
    LET page_entity == PageEntity(page, [title |-> TitleOf(page.id)],
                                  SpaceBreadcrumb(space_entity))
    IN IF page.id \notin handed THEN Walk(<<>>, FALSE)
       ELSE IF page.id \in dropped THEN Walk(<<>>, TRUE)
       ELSE Then(Walk(<<page_entity>>, TRUE), RefComments(page_entity, space_entity))

RECURSIVE RefPageList(_, _)
RefPageList(pages, space_entity) ==
    IF pages = <<>> THEN Walk(<<>>, TRUE)
    ELSE Then(RefPage(Head(pages), space_entity), RefPageList(Tail(pages), space_entity))

RefBlogPosts(space_entity) ==
    LET L == Key("blogposts", space_entity.id)
    IN Walk([i \in DOMAIN ItemsOf(L) |->
                BlogPostEntity(ItemsOf(L)[i], SpaceBreadcrumb(space_entity))],
            ServedWhole(L))

RefSpace(space) ==
    LET space_entity == SpaceEntity(space)
        L == Key("pages", space.id)
    IN Then(Walk(<<space_entity>>, TRUE),
            Then(RefPageList(ItemsOf(L), space_entity),
                 Then(EndOf(L), RefBlogPosts(space_entity))))

RECURSIVE RefSpaceList(_)
RefSpaceList(spaces) ==
    IF spaces = <<>> THEN Walk(<<>>, TRUE)
    ELSE Then(RefSpace(Head(spaces)), RefSpaceList(Tail(spaces)))

Reference == Then(RefSpaceList(ItemsOf(SpacesKey)), EndOf(SpacesKey))

\* C24: what has been emitted is at every moment the beginning of the
\* output without faults, in its order, each record once and with its
\* lineage; when a fetch fault ends the run, the output is the output
\* without faults up to the record before the one that needed the failed
\* fetch, and a run without fault ends with the whole of it.
C24_FaultLeavesPrefix ==
    LET ref == Reference
    IN /\ IsPrefix(out, ref.recs)
       /\ pc = "failed" => (out = ref.recs /\ ~ref.full)
       /\ pc = "done" => (out = ref.recs /\ ref.full)

\* The comment listing of the second page of a space failed: the space and
\* its two pages have been emitted.
C24_FailedAfterThree ==
    /\ pc = "failed"
    /\ Len(out) = 3
    /\ out[3].kind = "page"
    /\ LastReq.key = Key("inline-comments", out[3].id)
    /\ Len(reqs) = 6

(***************************************************************************)
(* Blog posts.                                                             *)
(***************************************************************************)
BlogListings == {L \in ReqListings : L.kind = "blogposts"}
\* The requests made for an item: of its details or of its comments.
ReqsFor(id) ==
    {i \in DOMAIN reqs :
        \/ reqs[i].key \in {Key("detail", id), Key("inline-comments", id)}
        \/ reqs[i].url \in {PageDetailUrl(id), CommentsUrl(id)}}

Established ==
    IF ~AUTH_ENABLED THEN (IF db.user.found THEN "system" ELSE "")
    ELSE IF auth0_user # Null THEN (IF db.user.found THEN "auth0" ELSE "")
    ELSE IF Truthy(x_api_key) /\ db.api_key.found THEN "api_key"
    ELSE ""
\* The organization the request is for: that of the header, else the
\* primary organization of the user or the organization of the API key.
Requested ==
    IF Truthy(x_organization_id) THEN x_organization_id
    ELSE IF Established = "api_key" THEN db.api_key.organization_id
    ELSE db.user.primary_organization_id
MayAccess(org) ==
    IF Established = "api_key" THEN org = db.api_key.organization_id
    ELSE org \in db.user.user_organizations

\* C26: get_auth_context returns a context only for a request whose
\* credentials establish a method and for an organization the caller may
\* access; for every other request it raises an HTTP error: 401 when no
\* valid authentication is provided, 400 when no organization can be
\* resolved, 403 when access to the organization is denied.
C26_ContextOnlyWithAccess ==
    apc = "end" =>
        ares = IF Established = "" THEN HTTPException(401)
               ELSE IF ~Truthy(Requested) THEN HTTPException(400)
               ELSE IF ~MayAccess(Requested) THEN HTTPException(403)
               ELSE Context(Requested, Established)
====
